---------------------------- MODULE Spec2Model ----------------------------
(***************************************************************************)
(* Notes API (notes_backend/src/api/main.py): five request handlers over   *)
(* one PostgreSQL table, each running in its own SQLAlchemy session.       *)
(*                                                                         *)
(* The table is the only shared state.  Each worker handles one request at *)
(* a time; a handler is split at its database round trips, which is where  *)
(* requests of other workers interleave.  The database is PostgreSQL at    *)
(* its default isolation level (READ COMMITTED):                           *)
(*   - a statement sees the rows committed before it starts;               *)
(*   - UPDATE and DELETE of a row wait while another transaction holds an  *)
(*     uncommitted write of that row, and then act on what was committed;  *)
(*   - NOW() is the start time of the current transaction.                 *)
(* The session is SQLAlchemy's (autoflush=False, expire_on_commit left at  *)
(* its default): commit() flushes pending ORM changes first, refresh()     *)
(* re-reads the row in a new transaction.                                  *)
(***************************************************************************)
EXTENDS Integers, Sequences, FiniteSets, TLC

\* Bounds of the model.
MaxNotes == 2      \* notes ever inserted
MaxRequests == 3   \* requests ever accepted
MaxClock == 1      \* last value of the database clock

\* The concurrent request workers (sessions in flight at once).
Procs == {"w1", "w2"}

\* Identifiers: those gen_random_uuid() hands out, in order, and one it never does.
Ids == 1..(MaxNotes + 1)

\* Python's None: an absent field of a NoteUpdate payload.
None == "<None>"

\* Payload values the clients send; "" is the empty string.
CreateTitles == {"", "A"}
CreateContents == {"", "B"}
UpdateTitles == {None, "", "C"}
UpdateContents == {None, "", "D"}

VARIABLES
    rows,       \* the committed notes table: id -> row
    nextId,     \* the next identifier gen_random_uuid() returns
    clock,      \* the database server's clock
    req,        \* per worker: the request it is handling
    created,    \* history: ids whose INSERT has committed
    removed,    \* history: ids whose DELETE has committed
    delOK,      \* history: per id, the Delete requests that returned 200
    served      \* history: the requests accepted so far

vars == <<rows, nextId, clock, req, created, removed, delOK, served>>

---------------------------------------------------------------------------
\* NoteORM: the columns of a row besides its primary key.
NoteORM(t, c, ca, ua) ==
    [title |-> t, content |-> c, created_at |-> ca, updated_at |-> ua]

\* Note: the response model, a row with its id.
Note(i, r) ==
    [id |-> i, title |-> r.title, content |-> r.content,
     created_at |-> r.created_at, updated_at |-> r.updated_at]

\* The attributes of a loaded NoteORM object a handler reads or sets.
Loaded(t, c) == [title |-> t, content |-> c]

\* Field(..., min_length=1)
MinLength == 1

\* NoteCreate with min_length left out of its fields.
NoteCreateValidNoMin(t, c) == t # None /\ c # None

\* NoteCreate: both fields required, each of at least min_length characters.
NoteCreateValid(t, c) ==
    /\ t # None /\ Len(t) >= MinLength
    /\ c # None /\ Len(c) >= MinLength

\* NoteUpdate: both fields optional; one that is given has min_length.
NoteUpdateValid(t, c) ==
    /\ (t # None => Len(t) >= MinLength)
    /\ (c # None => Len(c) >= MinLength)

\* update_note without its first test.
NothingToUpdateUnchecked(t, c) == FALSE

\* update_note's first test: the payload names no field.
NothingToUpdate(t, c) == t = None /\ c = None

\* note.title = payload.title, when the payload gives one.
SetTitle(note, t) == IF t # None THEN t ELSE note.title

\* note.content = payload.content, when the payload gives one.
SetContent(note, c) == IF c # None THEN c ELSE note.content

\* The ids a client addresses: those handed out so far, and the next one,
\* which stands for any identifier that no note has had yet.
Addressed == 1..nextId

\* db.get(NoteORM, note_id) finds a committed row.
Exists(i) == i \in DOMAIN rows

\* The workers holding an uncommitted UPDATE or DELETE of row i.
Writers(i) ==
    {q \in Procs : /\ req[q].pc \in {"u_commit", "d_commit"}
                   /\ req[q].id = i
                   /\ req[q].matched}

\* A worker handling nothing.
Idle ==
    [op |-> "none", pc |-> "idle", id |-> 0, title |-> None, content |-> None,
     note |-> Loaded(None, None), start |-> 0, matched |-> FALSE,
     alone |-> TRUE, late |-> FALSE, status |-> 0, detail |-> "", body |-> <<>>]

\* A request as it is accepted.  late: a Delete of the id had already
\* returned 200 when this request came in.
Request(op, i, t, c) ==
    [Idle EXCEPT !.op = op, !.id = i, !.title = t, !.content = c,
                 !.late = (i \in Ids /\ delOK[i] > 0)]

\* Worker p, its last response sent, accepts a request.
Accept(p) ==
    /\ req[p].pc \in {"idle", "done"}
    /\ served < MaxRequests
    /\ served' = served + 1

\* Worker p makes a database round trip and moves to r.  An Update between
\* its lookup and its commit has then had another request interleaved.
Step(p, r) ==
    req' = [q \in Procs |->
              IF q = p THEN r
              ELSE IF req[q].pc \in {"u_exec", "u_commit"}
                   THEN [req[q] EXCEPT !.alone = FALSE]
                   ELSE req[q]]

\* Worker p answers without touching the database.
Answer(p, r) == req' = [req EXCEPT ![p] = r]

\* The request r answered: what the client is sent, and the session closed.
Done(r, st, detail, body) ==
    [r EXCEPT !.pc = "done", !.status = st, !.detail = detail, !.body = body,
              !.note = Idle.note, !.start = 0, !.alone = TRUE]

Init ==
    /\ rows = [i \in {} |-> NoteORM(None, None, 0, 0)]
    /\ nextId = 1
    /\ clock = 0
    /\ req = [p \in Procs |-> Idle]
    /\ created = {}
    /\ removed = {}
    /\ delOK = [i \in Ids |-> 0]
    /\ served = 0

\* The server clock advances.
Tick ==
    /\ clock < MaxClock
    /\ clock' = clock + 1
    /\ UNCHANGED <<rows, nextId, req, created, removed, delOK, served>>

---------------------------------------------------------------------------
\* POST /notes

\* INSERT with the columns' server defaults: both timestamps are NOW().
InsertRow(t, c, now) == NoteORM(t, c, now, now)

\* UPDATE notes SET created_at = NOW(), updated_at = NOW() WHERE id = :id
StampCreate(r, now) == [r EXCEPT !.created_at = now, !.updated_at = now]

\* create_note, to db.execute: a payload that fails validation is answered
\* 422 before the handler runs; otherwise the row is inserted (flush) and
\* stamped inside a transaction that starts now, invisible to the others.
CreateFlush(p, t, c) ==
    /\ Accept(p)
    /\ IF ~NoteCreateValid(t, c)
       THEN /\ Answer(p, Done(Request("create", 0, t, c), 422, "validation error", <<>>))
            /\ UNCHANGED nextId
       ELSE /\ nextId <= MaxNotes
            /\ Step(p, [Request("create", nextId, t, c) EXCEPT
                            !.pc = "c_commit", !.start = clock])
            /\ nextId' = nextId + 1
    /\ UNCHANGED <<rows, clock, created, removed, delOK>>

\* create_note: db.commit() makes the inserted and stamped row visible.
CreateCommit(p) ==
    /\ req[p].pc = "c_commit"
    /\ LET r == req[p] IN
       rows' = (r.id :> StampCreate(InsertRow(r.title, r.content, r.start), r.start))
                 @@ rows
    /\ created' = created \cup {req[p].id}
    /\ Step(p, [req[p] EXCEPT !.pc = "c_refresh"])
    /\ UNCHANGED <<nextId, clock, removed, delOK, served>>

\* db.refresh(note) and the response built from it: the row as committed
\* now; InvalidRequestError (a SQLAlchemyError, answered 500) when it is gone.
Refresh(r) ==
    IF Exists(r.id)
    THEN Done(r, 200, "", <<Note(r.id, rows[r.id])>>)
    ELSE Done(r, 500, "Database error", <<>>)

\* create_note: db.refresh(note) and the response.
CreateRefresh(p) ==
    /\ req[p].pc = "c_refresh"
    /\ Step(p, Refresh(req[p]))
    /\ UNCHANGED <<rows, nextId, clock, created, removed, delOK, served>>

---------------------------------------------------------------------------
\* GET /notes/{note_id}

get_note(p, i) ==
    /\ Accept(p)
    /\ Step(p, IF Exists(i)
               THEN Done(Request("get", i, None, None), 200, "", <<Note(i, rows[i])>>)
               ELSE Done(Request("get", i, None, None), 404, "Note not found", <<>>))
    /\ UNCHANGED <<rows, nextId, clock, created, removed, delOK>>

---------------------------------------------------------------------------
\* GET /notes

\* ORDER BY updated_at, without DESC.
OrderByUpdatedAtAsc(s) ==
    \A k \in 1..(Len(s) - 1) : s[k].updated_at <= s[k + 1].updated_at

\* ORDER BY updated_at DESC
OrderByUpdatedAtDesc(s) ==
    \A k \in 1..(Len(s) - 1) : s[k].updated_at >= s[k + 1].updated_at

\* SELECT ... FROM notes: every row of the table once, in some order.
SelectAll(t) ==
    LET n == Cardinality(DOMAIN t) IN
    {[k \in 1..n |-> Note(f[k], t[f[k]])] :
        f \in {g \in [1..n -> DOMAIN t] :
                 \A a, b \in 1..n : a # b => g[a] # g[b]}}

\* db.query(NoteORM).order_by(NoteORM.updated_at.desc()).all(): the order of
\* rows with equal updated_at is the database's choice.
QueryAll(t) == {s \in SelectAll(t) : OrderByUpdatedAtDesc(s)}

list_notes(p) ==
    /\ Accept(p)
    /\ \E s \in QueryAll(rows) :
          Step(p, Done(Request("list", 0, None, None), 200, "", s))
    /\ UNCHANGED <<rows, nextId, clock, created, removed, delOK>>

---------------------------------------------------------------------------
\* PUT /notes/{note_id}

\* update_note, to db.get: validation (422, before the handler runs), the
\* empty payload (400), the lookup (404), which starts the transaction.
UpdateGet(p, i, t, c) ==
    /\ Accept(p)
    /\ LET r == Request("update", i, t, c) IN
       IF ~NoteUpdateValid(t, c)
       THEN Answer(p, Done(Request("update", 0, t, c), 422, "validation error", <<>>))
       ELSE IF NothingToUpdate(t, c)
       THEN Answer(p, Done(r, 400, "Nothing to update", <<>>))
       ELSE IF ~Exists(i)
       THEN Step(p, Done(r, 404, "Note not found", <<>>))
       ELSE Step(p, [r EXCEPT !.pc = "u_exec", !.start = clock,
                              !.note = Loaded(rows[i].title, rows[i].content)])
    /\ UNCHANGED <<rows, nextId, clock, created, removed, delOK>>

\* The UPDATE of update_note setting created_at as the UPDATE of create_note does.
UpdateStatementRestamp(row, note, t, c, now) ==
    [row EXCEPT !.title = SetTitle(note, t), !.content = SetContent(note, c),
                !.created_at = now, !.updated_at = now]

\* UPDATE notes SET updated_at = NOW(), title = :title, content = :content
\* WHERE id = :id: the parameters are the loaded object's title and content
\* after the payload's fields were set on it.
UpdateStatement(row, note, t, c, now) ==
    [row EXCEPT !.title = SetTitle(note, t), !.content = SetContent(note, c),
                !.updated_at = now]

\* update_note: db.execute(UPDATE ...).  It waits for another transaction's
\* write of the row; it matches no row when the row is gone.
UpdateExec(p) ==
    /\ req[p].pc = "u_exec"
    /\ Writers(req[p].id) = {}
    /\ Step(p, [req[p] EXCEPT !.pc = "u_commit", !.matched = Exists(req[p].id)])
    /\ UNCHANGED <<rows, nextId, clock, created, removed, delOK, served>>

\* The session has a changed attribute to flush.
Dirty(r) ==
    \/ SetTitle(r.note, r.title) # r.note.title
    \/ SetContent(r.note, r.content) # r.note.content

\* update_note: db.commit().  The flush writes the changed attributes with
\* an ORM UPDATE, which raises StaleDataError (a SQLAlchemyError: rollback,
\* 500) when it matches no row; then the transaction commits.
UpdateCommit(p) ==
    /\ req[p].pc = "u_commit"
    /\ LET r == req[p] IN
       IF r.matched
       THEN /\ rows' = [rows EXCEPT ![r.id] =
                          UpdateStatement(@, r.note, r.title, r.content, r.start)]
            /\ Step(p, [r EXCEPT !.pc = "u_refresh"])
       ELSE /\ UNCHANGED rows
            /\ Step(p, IF Dirty(r)
                       THEN Done(r, 500, "Database error", <<>>)
                       ELSE [r EXCEPT !.pc = "u_refresh"])
    /\ UNCHANGED <<nextId, clock, created, removed, delOK, served>>

\* update_note: db.refresh(note) and the response.
UpdateRefresh(p) ==
    /\ req[p].pc = "u_refresh"
    /\ Step(p, Refresh(req[p]))
    /\ UNCHANGED <<rows, nextId, clock, created, removed, delOK, served>>

---------------------------------------------------------------------------
\* DELETE /notes/{note_id}

\* delete_note, to db.delete(note): the lookup (404).
DeleteGet(p, i) ==
    /\ Accept(p)
    /\ LET r == Request("delete", i, None, None) IN
       Step(p, IF Exists(i)
               THEN [r EXCEPT !.pc = "d_flush"]
               ELSE Done(r, 404, "Note not found", <<>>))
    /\ UNCHANGED <<rows, nextId, clock, created, removed, delOK>>

\* delete_note: the flush inside db.commit() emits DELETE FROM notes WHERE
\* id = :id.  It waits for another transaction's write of the row.
DeleteFlush(p) ==
    /\ req[p].pc = "d_flush"
    /\ Writers(req[p].id) = {}
    /\ Step(p, [req[p] EXCEPT !.pc = "d_commit", !.matched = Exists(req[p].id)])
    /\ UNCHANGED <<rows, nextId, clock, created, removed, delOK, served>>

\* A delete that leaves the row in the table.
DeleteRowKept(t, i) == t

\* The table without row i.
DeleteRow(t, i) == [j \in (DOMAIN t) \ {i} |-> t[j]]

\* What delete_note answers once its flush has run.  A DELETE that matched
\* no row makes the unit of work warn (the mapper has no version column),
\* not raise: the handler goes on to its return statement.
DeleteResponse(r) == Done(r, 200, "deleted", <<>>)

\* delete_note: the COMMIT inside db.commit() and the response.
DeleteCommit(p) ==
    /\ req[p].pc = "d_commit"
    /\ LET r == req[p] IN
       /\ rows' = IF r.matched THEN DeleteRow(rows, r.id) ELSE rows
       /\ removed' = IF r.matched THEN removed \cup {r.id} ELSE removed
       /\ delOK' = IF DeleteResponse(r).status = 200
                   THEN [delOK EXCEPT ![r.id] = @ + 1] ELSE delOK
       /\ Step(p, DeleteResponse(r))
    /\ UNCHANGED <<nextId, clock, created, served>>

---------------------------------------------------------------------------
Next ==
    \/ Tick
    \/ \E p \in Procs, t \in CreateTitles, c \in CreateContents : CreateFlush(p, t, c)
    \/ \E p \in Procs : CreateCommit(p)
    \/ \E p \in Procs : CreateRefresh(p)
    \/ \E p \in Procs, i \in Addressed : get_note(p, i)
    \/ \E p \in Procs : list_notes(p)
    \/ \E p \in Procs, i \in Addressed, t \in UpdateTitles, c \in UpdateContents :
          UpdateGet(p, i, t, c)
    \/ \E p \in Procs : UpdateExec(p)
    \/ \E p \in Procs : UpdateCommit(p)
    \/ \E p \in Procs : UpdateRefresh(p)
    \/ \E p \in Procs, i \in Addressed : DeleteGet(p, i)
    \/ \E p \in Procs : DeleteFlush(p)
    \/ \E p \in Procs : DeleteCommit(p)

Spec == Init /\ [][Next]_vars

---------------------------------------------------------------------------
\* Properties of the handlers.

Finished(p, op) == req[p].pc = "done" /\ req[p].op = op

\* C1: once a Delete of id X has returned 200, X has no stored row in any
\* later state, and every Get, Update (with at least one valid field) and
\* Delete of X that comes in afterwards is answered 404.
C1_DeletedStaysDeleted ==
    /\ \A i \in Ids : delOK[i] > 0 => ~Exists(i)
    /\ \A p \in Procs :
          (/\ req[p].pc = "done"
           /\ req[p].late
           /\ req[p].op \in {"get", "update", "delete"}
           /\ req[p].op = "update" =>
                 (/\ NoteUpdateValid(req[p].title, req[p].content)
                  /\ ~NothingToUpdate(req[p].title, req[p].content)))
          => req[p].status = 404

\* C1 witness: an Update of a deleted id was answered.
C1_Witness ==
    \E p \in Procs : Finished(p, "update") /\ req[p].late /\ req[p].title = "C"

\* C2: the commit of an Update that no other request was interleaved with
\* keeps the table's ids, every other note's row, the note's created_at, and
\* each of title and content that the payload does not give.
C2_UpdateFrame ==
    [][\A p \in Procs :
          (/\ req[p].pc = "u_commit" /\ req[p].alone /\ req[p].matched
           /\ UpdateCommit(p)) =>
             LET i == req[p].id IN
             /\ DOMAIN rows' = DOMAIN rows
             /\ \A j \in DOMAIN rows : j # i => rows'[j] = rows[j]
             /\ rows'[i].created_at = rows[i].created_at
             /\ (req[p].title = None => rows'[i].title = rows[i].title)
             /\ (req[p].content = None => rows'[i].content = rows[i].content)
             /\ (req[p].title # None => rows'[i].title = req[p].title)
             /\ (req[p].content # None => rows'[i].content = req[p].content)]_vars

\* C2 witness: an uninterleaved Update of the title alone has committed, at
\* a later time than the note's creation and with another note stored.
C2_Witness ==
    \E p \in Procs :
        /\ req[p].pc = "u_refresh" /\ req[p].alone
        /\ req[p].title = "C" /\ req[p].content = None
        /\ Cardinality(DOMAIN rows) = 2
        /\ rows[req[p].id].title = "C"
        /\ rows[req[p].id].updated_at > rows[req[p].id].created_at

\* C3: when an Update giving only a title and an Update giving only a content
\* of the same note have both returned 200, the stored note has that title
\* and that content.
C3_ConcurrentPartialUpdates ==
    \A p, q \in Procs :
        (/\ p # q
         /\ Finished(p, "update") /\ req[p].status = 200
         /\ Finished(q, "update") /\ req[q].status = 200
         /\ req[p].id = req[q].id
         /\ req[p].title # None /\ req[p].content = None
         /\ req[q].title = None /\ req[q].content # None)
        => /\ Exists(req[p].id)
           /\ rows[req[p].id].title = req[p].title
           /\ rows[req[p].id].content = req[q].content

\* C4: the stored updated_at of a note never decreases, and is never before
\* its created_at.
C4_UpdatedAtMonotone ==
    /\ [](\A i \in DOMAIN rows : rows[i].updated_at >= rows[i].created_at)
    /\ [][\A i \in (DOMAIN rows) \cap (DOMAIN rows') :
             rows'[i].updated_at >= rows[i].updated_at]_vars

\* C5: the record a Create returns with 200 has the payload's title and
\* content and equal created_at and updated_at.
C5_CreateReturnsCreated ==
    \A p \in Procs :
        (Finished(p, "create") /\ req[p].status = 200) =>
            /\ Len(req[p].body) = 1
            /\ req[p].body[1].id = req[p].id
            /\ req[p].body[1].title = req[p].title
            /\ req[p].body[1].content = req[p].content
            /\ req[p].body[1].created_at = req[p].body[1].updated_at

\* C6: List returns the notes created and not deleted, each once, with the
\* fields stored at that moment, in non-increasing order of updated_at, and
\* leaves the table as it was.
C6_ListExact ==
    [][\A p \in Procs :
          (served' # served /\ req'[p].op = "list" /\ list_notes(p)) =>
             LET b == req'[p].body IN
             /\ req'[p].status = 200
             /\ Len(b) = Cardinality(created \ removed)
             /\ {b[k] : k \in 1..Len(b)} = {Note(i, rows[i]) : i \in created \ removed}
             /\ \A k, l \in 1..Len(b) : k < l => b[k].updated_at >= b[l].updated_at
             /\ rows' = rows]_vars

\* C6 witness: a List returned two notes with different updated_at.
C6_Witness ==
    \E p \in Procs :
        /\ Finished(p, "list")
        /\ Len(req[p].body) = 2
        /\ req[p].body[1].updated_at > req[p].body[2].updated_at

\* C7: an Update (with at least one valid field) or a Delete of an id that
\* has no stored row, at its lookup or at its write, is answered 404.
C7_NotFoundNot500 ==
    \A p \in Procs :
        (/\ req[p].pc = "done"
         /\ req[p].op \in {"update", "delete"}
         /\ req[p].status \notin {400, 422}
         /\ ~req[p].matched)
        => req[p].status = 404

\* C8: an Update whose payload gives neither field is answered 400 "Nothing
\* to update" and leaves the table as it was, whether the id exists or not.
C8_NothingToUpdate ==
    [][\A p \in Procs, i \in Ids :
          (/\ served' # served /\ req'[p].op = "update" /\ req'[p].id = i
           /\ UpdateGet(p, i, None, None)) =>
             /\ req'[p].status = 400
             /\ req'[p].detail = "Nothing to update"
             /\ rows' = rows]_vars

\* C8 witness: the 400 was answered for an id that has a row and for one
\* that never had.
C8_Witness ==
    \E p, q \in Procs :
        /\ req[p].status = 400 /\ Exists(req[p].id)
        /\ req[q].status = 400 /\ req[q].id \notin created

\* A payload with an empty title or an empty content.
HasEmpty(t, c) == t = "" \/ c = ""

\* C9: every stored note has a non-empty title and a non-empty content; a
\* Create or an Update whose payload has an empty title or content is
\* rejected and writes nothing.
C9_NonEmptyFields ==
    /\ [](\A i \in DOMAIN rows : Len(rows[i].title) >= 1 /\ Len(rows[i].content) >= 1)
    /\ [][\A p \in Procs :
             (/\ req'[p] # req[p]
              /\ req'[p].op \in {"create", "update"}
              /\ HasEmpty(req'[p].title, req'[p].content))
             => /\ req'[p].status = 422
                /\ rows' = rows /\ nextId' = nextId]_vars

\* C9 witness: a Create was rejected for its empty title, an Update for its
\* empty content, and a note is stored.
C9_Witness ==
    \E p, q \in Procs :
        /\ Finished(p, "create") /\ req[p].status = 422 /\ req[p].title = ""
        /\ Finished(q, "update") /\ req[q].status = 422 /\ req[q].content = ""
        /\ DOMAIN rows # {}

\* C10: a Delete that returns 200 removed the row itself, so that at most
\* one Delete of an id returns 200.
C10_OneDeleteSucceeds ==
    /\ \A i \in Ids : delOK[i] <= 1
    /\ \A p \in Procs :
          (Finished(p, "delete") /\ req[p].status = 200) => req[p].matched

===========================================================================
